---- MODULE Spec2Model ----
(***************************************************************************)
(* Model of the touch zoom controller of dalyr95/zoom                       *)
(* (src/unnamed/part_000): the transform algebra, the gesture resolver,     *)
(* the touch handlers, the constraint engine and the reset animation.       *)
(* The handler state machine of src/zoom-1.0.7-beta.js, which shares the   *)
(* algebra, is modelled in a section of its own.                           *)
(*                                                                          *)
(* JavaScript numbers are modelled as extended rationals <<n, d>>:          *)
(*   d > 0, gcd(n, d) = 1   the finite number n/d                           *)
(*   <<1, 0>>, <<-1, 0>>    +Infinity, -Infinity                            *)
(*   <<0, 0>>               NaN                                             *)
(* Arithmetic is exact where IEEE doubles round; the inputs used below are  *)
(* small integers and the scale factors dyadic, on which doubles are exact  *)
(* too.  The sign of zero is not tracked (no divisor of the program can be  *)
(* -0: every divisor is a sum of squares or a square root).                 *)
(***************************************************************************)
EXTENDS Integers, Sequences, FiniteSets, TLC

---------------------------------------------------------------------------
(* Numbers *)

Abs(i) == IF i < 0 THEN -i ELSE i

Sign(i) == IF i < 0 THEN -1 ELSE IF i > 0 THEN 1 ELSE 0

RECURSIVE GCD(_, _)
GCD(a, b) == IF b = 0 THEN a ELSE GCD(b, a % b)

Norm(n, d) ==
    IF d = 0 THEN <<Sign(n), 0>>
    ELSE LET s == IF d < 0 THEN -1 ELSE 1
             g == GCD(Abs(n), Abs(d))
         IN  <<(s * n) \div g, (s * d) \div g>>

R(i) == <<i, 1>>
NaN == <<0, 0>>
Infinity == <<1, 0>>

IsNaN(x) == x[1] = 0 /\ x[2] = 0
IsInf(x) == x[1] # 0 /\ x[2] = 0
IsFinite(x) == x[2] # 0

RNeg(x) == <<-x[1], x[2]>>

RAdd(x, y) ==
    IF IsNaN(x) \/ IsNaN(y) THEN NaN
    ELSE IF IsInf(x) /\ IsInf(y) THEN (IF x = y THEN x ELSE NaN)
    ELSE IF IsInf(x) THEN x
    ELSE IF IsInf(y) THEN y
    ELSE Norm(x[1] * y[2] + y[1] * x[2], x[2] * y[2])

RSub(x, y) == RAdd(x, RNeg(y))

RMul(x, y) == Norm(x[1] * y[1], x[2] * y[2])

\* 1/x; 1/0 is +Infinity (the program never divides by -0)
RInv(x) ==
    IF x[1] > 0 THEN <<x[2], x[1]>>
    ELSE IF x[1] < 0 THEN <<-x[2], -x[1]>>
    ELSE IF x[2] = 0 THEN NaN ELSE Infinity

RDiv(x, y) == RMul(x, RInv(y))

\* x < y, x <= y, x === y: every comparison with NaN is false
RLt(x, y) ==
    /\ ~IsNaN(x) /\ ~IsNaN(y)
    /\ IF x[2] = 0 /\ y[2] = 0 THEN x[1] < y[1]
       ELSE x[1] * y[2] < y[1] * x[2]

REq(x, y) == ~IsNaN(x) /\ ~IsNaN(y) /\ x = y

RLe(x, y) == RLt(x, y) \/ REq(x, y)

RGt(x, y) == RLt(y, x)

RGe(x, y) == RLe(y, x)

RAbs(x) == <<Abs(x[1]), x[2]>>

\* the integer square root of a perfect square
ISqrt(i) == CHOOSE r \in 0..i : r * r = i

\* Math.sqrt on the values the model meets: perfect squares n/d, Infinity, NaN
RSqrt(x) ==
    IF x[2] = 0 THEN (IF x[1] > 0 THEN Infinity ELSE NaN)
    ELSE IF x[1] < 0 THEN NaN
    ELSE <<ISqrt(x[1]), ISqrt(x[2])>>

IsSquare(i) == \E r \in 0..i : r * r = i

---------------------------------------------------------------------------
(* Transform algebra: Vector <<x, y>>, Matrix <<row, row>>,                *)
(* Transform [A |-> Matrix, b |-> Vector]                                   *)

scmult(l, x) == <<RMul(l, x[1]), RMul(l, x[2])>>

vcadd(a, b) == <<RAdd(a[1], b[1]), RAdd(a[2], b[2])>>

minus(a, b) == <<RSub(a[1], b[1]), RSub(a[2], b[2])>>

dot(a, b) == RAdd(RMul(a[1], b[1]), RMul(a[2], b[2]))

wedge(a, b) == RSub(RMul(a[1], b[2]), RMul(a[2], b[1]))

apply(A, x) == vcadd(scmult(x[1], A[1]), scmult(x[2], A[2]))

mult(A, B) == <<apply(A, B[1]), apply(A, B[2])>>

Transform(A, b) == [A |-> A, b |-> b]

\* Transform.prototype.css: the six numbers of matrix(a,b,c,d,e,f), in order
css(T) == <<T.A[1][1], T.A[1][2], T.A[2][1], T.A[2][2], T.b[1], T.b[2]>>

\* cascade composing the other way round: U after T
cascade_reversed(T, U) == Transform(mult(U.A, T.A), vcadd(apply(U.A, T.b), U.b))

cascade(T, U) == Transform(mult(T.A, U.A), vcadd(apply(T.A, U.b), T.b))

rotate(c, s) == <<<<c, s>>, <<RNeg(s), c>>>>

\* rotscale turning the other way
rotscale_mirrored(a, b) ==
    rotate(RDiv(dot(a, b), dot(a, a)), RNeg(RDiv(wedge(a, b), dot(a, a))))

rotscale(a, b) ==
    LET alen == dot(a, a)
        sig == dot(a, b)
        del == wedge(a, b)
    IN  rotate(RDiv(sig, alen), RDiv(del, alen))

\* blen / alen with alen = sqrt(a.a), blen = sqrt(b.b).  When a.a = b.b is
\* finite and non-zero the quotient of the two equal roots is exactly 1,
\* also where the root is irrational (the synthesized single-contact
\* vector (1,1)); a NaN under either root makes the quotient NaN; otherwise
\* both must be perfect squares.
justscale(a, b) ==
    LET alen2 == dot(a, a)
        blen2 == dot(b, b)
        scale == IF IsNaN(alen2) \/ IsNaN(blen2)
                 THEN NaN
                 ELSE IF alen2 = blen2 /\ IsFinite(alen2) /\ alen2[1] # 0
                 THEN R(1)
                 ELSE RDiv(RSqrt(blen2), RSqrt(alen2))
    IN  rotate(scale, R(0))

zoom(s, d, rot) ==
    LET a == minus(s[2], s[1])
        b == minus(d[2], d[1])
        rs == IF rot THEN rotscale(a, b) ELSE justscale(a, b)
        rs0 == apply(rs, s[1])
        t == minus(d[1], rs0)
    IN  Transform(rs, t)

avgVector(u, v, progress) ==
    LET u1 == scmult(RSub(R(1), progress), u)
        v1 == scmult(progress, v)
    IN  vcadd(u1, v1)

avgMatrix(A, B, progress) ==
    <<avgVector(A[1], B[1], progress), avgVector(A[2], B[2], progress)>>

TransformAvg(Z, I, progress) ==
    Transform(avgMatrix(Z.A, I.A, progress), avgVector(Z.b, I.b, progress))

identity == Transform(<<<<R(1), R(0)>>, <<R(0), R(1)>>>>, <<R(0), R(0)>>)

---------------------------------------------------------------------------
(* The host and the configuration *)

\* null and undefined; a number is a pair, so neither is a number
Null == <<>>
Undefined == <<>>

\* JavaScript truthiness of a number-or-null/undefined value
Truthy(v) == v # <<>> /\ ~IsNaN(v) /\ v # R(0)

VARIABLES
    cfg,                \* this.config, this.wnd, this.pixelSize, the element's offsets and the viewport size
    mayBeDoubleTap,     \* this.mayBeDoubleTap: 0 is null, else the handle of the double-tap timer
    isAnimationRunning, \* this.isAnimationRunning
    curTouch,           \* this.curTouch
    activeZoom,         \* this.activeZoom
    resultantZoom,      \* this.resultantZoom
    srcCoords,          \* this.srcCoords
    destCoords,         \* this.destCoords
    style,              \* elem.style.transform: Null until the first repaint
    tapTimers,          \* handles of the armed 300ms timers of handleTouchStart
    graceTimers,        \* number of armed 100ms grace timers of reset
    frames,             \* queue of the step closures passed to requestAnimationFrame
    pendingZoom,        \* <<touches>> while a touchstart has run handleTouchStart and handleZoom is still to run
    repaints,           \* history: calls of repaint made by the last callback
    lastCb,             \* history: the last callback run, the touches it was given, and
                        \* isAnimationRunning and curTouch as it found them
    srcN,               \* history: contact count of the event srcCoords was captured from (-1: never)
    destN,              \* history: contact count of the event destCoords was captured from (-1: never)
    nEvents,            \* number of touch events dispatched and public methods called so far
    destroyed,          \* destroy has run: the listeners are removed and the own properties deleted
    thrown,             \* history: a callback ended in a thrown TypeError
    curState,           \* this.curState of zoom-1.0.7-beta.js; Undefined in the released controller
    calc                \* a call of one of the pure functions: its arguments and, once made, its result

vars == <<cfg, mayBeDoubleTap, isAnimationRunning, curTouch, activeZoom,
          resultantZoom, srcCoords, destCoords, style, tapTimers, graceTimers,
          frames, pendingZoom, repaints, lastCb, srcN, destN, nEvents,
          destroyed, thrown, curState, calc>>

\* The constructor's this.srcCoords = [0, 0] is an array of two numbers, not
\* of two points: reading a coordinate of either entry yields undefined and
\* every arithmetic operation on it NaN.
initCoords == <<<<NaN, NaN>>, <<NaN, NaN>>>>

\* The controller object `me` together with what its methods act on.
Me == [mayBeDoubleTap |-> mayBeDoubleTap,
       isAnimationRunning |-> isAnimationRunning,
       curTouch |-> curTouch,
       activeZoom |-> activeZoom,
       resultantZoom |-> resultantZoom,
       srcCoords |-> srcCoords,
       destCoords |-> destCoords,
       style |-> style,
       tapTimers |-> tapTimers,
       graceTimers |-> graceTimers,
       frames |-> frames,
       repaints |-> 0,
       srcN |-> srcN,
       destN |-> destN]

\* The fields of the controller that the claims speak about.
Fields == [mayBeDoubleTap |-> mayBeDoubleTap,
           isAnimationRunning |-> isAnimationRunning,
           curTouch |-> curTouch,
           activeZoom |-> activeZoom,
           resultantZoom |-> resultantZoom,
           srcCoords |-> srcCoords,
           destCoords |-> destCoords]

---------------------------------------------------------------------------
(* Coordinate capture *)

getCoordsDouble(t) ==
    LET oX == cfg.offsetLeft
        oY == cfg.offsetTop
    IN  <<<<RSub(t[1][1], oX), RSub(t[1][2], oY)>>,
          <<RSub(t[2][1], oX), RSub(t[2][2], oY)>>>>

getCoordsSingle(t) ==
    LET oX == cfg.offsetLeft
        oY == cfg.offsetTop
        x == RSub(t[1][1], oX)
        y == RSub(t[1][2], oY)
    IN  <<<<x, y>>, <<RAdd(x, R(1)), RAdd(y, R(1))>>>>

getCoords(t) == IF Len(t) > 1 THEN getCoordsDouble(t) ELSE getCoordsSingle(t)

setSrcAndDest(me, touches) ==
    [me EXCEPT !.srcCoords = getCoords(touches),
               !.destCoords = getCoords(touches),
               !.srcN = Len(touches),
               !.destN = Len(touches)]

setDest(me, touches) ==
    [me EXCEPT !.destCoords = getCoords(touches),
               !.destN = Len(touches)]

---------------------------------------------------------------------------
(* Zoom.prototype *)

repaint(me) ==
    [me EXCEPT !.style = css(me.resultantZoom),
               !.repaints = me.repaints + 1]

\* setZoom that assigns without repainting
setZoom_unpainted(me, newZoom) == [me EXCEPT !.resultantZoom = newZoom]

setZoom(me, newZoom) == repaint([me EXCEPT !.resultantZoom = newZoom])

\* finalize that commits nothing
finalize_skipped(me) == me

finalize(me) == [me EXCEPT !.activeZoom = me.resultantZoom]

\* the divisor of progress in step: the animation lasts 100ms
AnimationMs == 100

\* the target of a reset that never zooms in
resetTarget_alwaysIdentity(me, useOriginalIdentity) == identity

\* The target of reset: identity, or with maxScale configured, the active
\* transform at rest and no useOriginalIdentity, the centred zoomed-in one.
resetTarget(me, useOriginalIdentity) ==
    LET Z == me.activeZoom
        max == cfg.maxScale
        middleX == RMul(RAdd(RDiv(RSub(RMul(cfg.pixelSize.width, max),
                                       cfg.windowSize.width), R(2)),
                             cfg.offsetLeft), R(-1))
        middleY == RMul(RAdd(RSub(RDiv(cfg.windowSize.height, R(2)),
                                  RDiv(cfg.pixelSize.height, R(2))),
                             RDiv(RSub(RMul(cfg.pixelSize.height, max),
                                       cfg.windowSize.height), R(2))), R(-1))
    IN  IF /\ Truthy(cfg.maxScale)
           /\ ~useOriginalIdentity
           /\ REq(Z.A[1][1], R(1))
           /\ REq(Z.A[2][2], R(1))
        THEN Transform(<<<<max, R(0)>>, <<R(0), max>>>>, <<middleX, middleY>>)
        ELSE identity

\* reset up to the first requestAnimationFrame(step): the closure keeps Z,
\* newIdentity and startTime (0 is null); time is the timestamp of the
\* frame it ran in last.
reset(me, useOriginalIdentity) ==
    IF cfg.requestAnimationFrame
    THEN [me EXCEPT !.isAnimationRunning = TRUE,
                    !.frames = Append(me.frames,
                                      [Z |-> me.activeZoom,
                                       newIdentity |-> resetTarget(me, useOriginalIdentity),
                                       startTime |-> 0,
                                       time |-> 0])]
    ELSE setZoom(me, identity)

\* step that clears isAnimationRunning in the final frame itself
step_noGrace(me, time) ==
    LET c == Head(me.frames)
        startTime == IF c.startTime = 0 THEN time ELSE c.startTime
        progress == RDiv(R(time - startTime), R(AnimationMs))
        rest == [me EXCEPT !.frames = Tail(me.frames)]
    IN  IF RGe(progress, R(1))
        THEN [setZoom(rest, c.newIdentity) EXCEPT !.graceTimers = @ + 1,
                                                  !.isAnimationRunning = FALSE]
        ELSE LET shown == setZoom(rest, TransformAvg(c.Z, c.newIdentity, progress))
             IN  [shown EXCEPT !.frames =
                      Append(shown.frames,
                             [c EXCEPT !.startTime = startTime, !.time = time])]

\* One requestAnimationFrame callback: the head of the queue runs with
\* timestamp `time`.
step(me, time) ==
    LET c == Head(me.frames)
        startTime == IF c.startTime = 0 THEN time ELSE c.startTime
        progress == RDiv(R(time - startTime), R(AnimationMs))
        rest == [me EXCEPT !.frames = Tail(me.frames)]
    IN  IF RGe(progress, R(1))
        THEN [setZoom(rest, c.newIdentity) EXCEPT !.graceTimers = @ + 1]
        ELSE LET shown == setZoom(rest, TransformAvg(c.Z, c.newIdentity, progress))
             IN  [shown EXCEPT !.frames =
                      Append(shown.frames,
                             [c EXCEPT !.startTime = startTime, !.time = time])]

\* checkPan that rejects a too small transform without resetting
checkPan_rejectOnly(me, rz) ==
    LET A == rz.A
        tooSmall == /\ Truthy(cfg.minScale)
                    /\ RLe(A[1][1], cfg.minScale)
                    /\ RLe(A[2][2], cfg.minScale)
        tooLarge == /\ Truthy(cfg.maxScale)
                    /\ RGt(A[1][1], cfg.maxScale)
                    /\ RGt(A[2][2], cfg.maxScale)
    IN  <<~tooSmall /\ ~tooLarge, me>>

\* checkPan without the maxScale test
checkPan_noCeiling(me, rz) ==
    LET A == rz.A
        tooSmall == /\ Truthy(cfg.minScale)
                    /\ RLe(A[1][1], cfg.minScale)
                    /\ RLe(A[2][2], cfg.minScale)
        me1 == IF tooSmall THEN reset(finalize(me), TRUE) ELSE me
    IN  <<~tooSmall, me1>>

\* checkPan: <<proceed, me>>
checkPan(me, rz) ==
    LET A == rz.A
        minScale == cfg.minScale
        maxScale == cfg.maxScale
        tooSmall == /\ Truthy(minScale)
                    /\ RLe(A[1][1], minScale)
                    /\ RLe(A[2][2], minScale)
        tooLarge == /\ Truthy(maxScale)
                    /\ RGt(A[1][1], maxScale)
                    /\ RGt(A[2][2], maxScale)
        me1 == IF tooSmall THEN reset(finalize(me), TRUE) ELSE me
    IN  <<~tooSmall /\ ~tooLarge, me1>>

\* checkBoundaries, portrait viewport: the clamped b
boundPortrait(A, b) ==
    LET width == RMul(cfg.pixelSize.width, A[1][1])
        height == RMul(cfg.pixelSize.height, A[2][2])
        ww == cfg.windowSize.width
        wh == cfg.windowSize.height
        ph == cfg.pixelSize.height
        b0r == IF RGe(b[1], R(0)) THEN R(0) ELSE b[1]
        b0 == IF RGe(RAbs(b0r), RSub(width, ww))
              THEN RMul(RSub(width, ww), R(-1)) ELSE b0r
        yTopFormula == RMul(RDiv(RSub(wh, ph), R(2)), R(-1))
        yTop == IF RLe(b[2], yTopFormula) THEN yTopFormula ELSE Undefined
        yBottomFormula == RSub(RDiv(RSub(wh, ph), R(2)), RSub(height, ph))
        yBottom == IF RGt(b[2], yBottomFormula) THEN yBottomFormula ELSE Undefined
        b1 == IF RLt(height, wh)
              THEN IF Truthy(yTop) /\ ~Truthy(yBottom) THEN yTop
                   ELSE IF Truthy(yBottom) /\ ~Truthy(yTop) THEN yBottom
                   ELSE b[2]
              ELSE IF Truthy(yTop) /\ ~Truthy(yBottom) THEN yBottomFormula
                   ELSE IF Truthy(yBottom) /\ ~Truthy(yTop) THEN yTopFormula
                   ELSE b[2]
    IN  <<b0, b1>>

\* checkBoundaries, landscape viewport: the clamped b
boundLandscape(A, b) ==
    LET width == RMul(cfg.pixelSize.width, A[1][1])
        height == RMul(cfg.pixelSize.height, A[2][2])
        ww == cfg.windowSize.width
        wh == cfg.windowSize.height
        pw == cfg.pixelSize.width
        xRightFormula == RMul(cfg.offsetLeft, R(-1))
        xRight == IF RGe(b[1], xRightFormula) THEN xRightFormula ELSE Undefined
        xLeftFormula == RSub(RDiv(RSub(ww, pw), R(2)), RSub(width, pw))
        xLeft == IF RLe(b[1], xLeftFormula) THEN xLeftFormula ELSE Undefined
        widerImage == RGt(width, ww)
        b0 == IF Truthy(xRight) /\ ~Truthy(xLeft)
              THEN (IF widerImage THEN xRight ELSE xLeftFormula)
              ELSE IF Truthy(xLeft) /\ ~Truthy(xRight)
              THEN (IF widerImage THEN xLeft ELSE xRightFormula)
              ELSE b[1]
        yTop == IF RGe(b[2], R(0)) THEN R(0) ELSE Undefined
        yBottom == IF ~RGe(b[2], R(0)) /\ RGe(RAbs(b[2]), RSub(height, wh))
                   THEN RMul(RSub(height, wh), R(-1)) ELSE Undefined
        \* undefined >= 0 is false
        b1 == IF yTop # Undefined /\ RGe(yTop, R(0)) /\ ~Truthy(yBottom) THEN yTop
              ELSE IF Truthy(yBottom) /\ ~Truthy(yTop) THEN yBottom
              ELSE b[2]
    IN  <<b0, b1>>

\* checkBoundaries that clamps whatever the boundaries option says
checkBoundaries_always(rz) ==
    IF RGt(cfg.windowSize.height, cfg.windowSize.width)
    THEN Transform(rz.A, boundPortrait(rz.A, rz.b))
    ELSE Transform(rz.A, boundLandscape(rz.A, rz.b))

checkBoundaries(rz) ==
    IF cfg.boundaries = TRUE
    THEN IF RGt(cfg.windowSize.height, cfg.windowSize.width)
         THEN Transform(rz.A, boundPortrait(rz.A, rz.b))
         ELSE Transform(rz.A, boundLandscape(rz.A, rz.b))
    ELSE rz

\* previewZoom that shows the proposed transform whatever checkPan returns
previewZoom_ignoresVerdict(me) ==
    LET additionalZoom == zoom(me.srcCoords, me.destCoords, cfg.rotate)
        rz == cascade(additionalZoom, me.activeZoom)
        cp == checkPan(me, rz)
    IN  repaint([cp[2] EXCEPT !.resultantZoom = checkBoundaries(rz)])

\* previewZoom that composes with the displayed instead of the active transform
previewZoom_onResultant(me) ==
    LET additionalZoom == zoom(me.srcCoords, me.destCoords, cfg.rotate)
        rz == cascade(additionalZoom, me.resultantZoom)
        cp == checkPan(me, rz)
    IN  IF cp[1] = FALSE THEN cp[2]
        ELSE repaint([cp[2] EXCEPT !.resultantZoom = checkBoundaries(rz)])

previewZoom(me) ==
    LET additionalZoom == zoom(me.srcCoords, me.destCoords, cfg.rotate)
        rz == cascade(additionalZoom, me.activeZoom)
        cp == checkPan(me, rz)
    IN  IF cp[1] = FALSE THEN cp[2]
        ELSE repaint([cp[2] EXCEPT !.resultantZoom = checkBoundaries(rz)])

---------------------------------------------------------------------------
(* The touch listeners *)

\* handleZoom's callback that captures only the destination on a count change
handleZoomCb_destOnly(me, touches) ==
    LET numOfFingers == Len(touches)
    IN  IF numOfFingers # me.curTouch
        THEN LET me1 == finalize([me EXCEPT !.curTouch = numOfFingers])
             IN  IF numOfFingers # 0 THEN setDest(me1, touches) ELSE me1
        ELSE IF numOfFingers # 0
        THEN previewZoom(setDest(me, touches))
        ELSE me

\* the callback handleTouchEvent wraps as handleZoom
handleZoomCb(me, touches) ==
    LET numOfFingers == Len(touches)
    IN  IF numOfFingers # me.curTouch
        THEN LET me1 == finalize([me EXCEPT !.curTouch = numOfFingers])
             IN  IF numOfFingers # 0 THEN setSrcAndDest(me1, touches) ELSE me1
        ELSE IF numOfFingers # 0
        THEN previewZoom(setDest(me, touches))
        ELSE me

\* setTimeout's handle for a new timer: the least positive one not armed
newHandle(me) == CHOOSE h \in 1..(Cardinality(me.tapTimers) + 1) :
                    /\ h \notin me.tapTimers
                    /\ \A g \in 1..(h - 1) : g \in me.tapTimers

\* handleTouchStart that arms a timer on every single-contact touchstart
handleTouchStartCb_alwaysArms(me, touches) ==
    IF Len(touches) = 1
    THEN [me EXCEPT !.mayBeDoubleTap = newHandle(me),
                    !.tapTimers = @ \cup {newHandle(me)}]
    ELSE me

\* the callback handleTouchEvent wraps as handleTouchStart
handleTouchStartCb(me, touches) ==
    IF Len(touches) = 1
    THEN IF me.mayBeDoubleTap # 0
         THEN LET cleared == [me EXCEPT !.tapTimers = @ \ {me.mayBeDoubleTap}]
              IN  [reset(cleared, FALSE) EXCEPT !.mayBeDoubleTap = 0]
         ELSE [me EXCEPT !.mayBeDoubleTap = newHandle(me),
                         !.tapTimers = @ \cup {newHandle(me)}]
    ELSE me

\* handleTouchEvent(cb)(evt): the event is ignored while the animation
\* runs (evt.touches is always present on a touch event)
\* handleZoom without the isAnimationRunning check
handleZoom_unguarded(me, touches) == handleZoomCb(me, touches)

handleZoom(me, touches) ==
    IF me.isAnimationRunning THEN me ELSE handleZoomCb(me, touches)

handleTouchStart(me, touches) ==
    IF me.isAnimationRunning THEN me ELSE handleTouchStartCb(me, touches)

\* a timer callback that leaves the pending marker set
tapTimeoutCb_keepsPending(me) == me

\* the callback of the 300ms timer armed by handleTouchStart
tapTimeoutCb(me) == [me EXCEPT !.mayBeDoubleTap = 0]

\* the callback of the 100ms grace timer armed by step
graceTimeoutCb(me) == [me EXCEPT !.isAnimationRunning = FALSE]

---------------------------------------------------------------------------
(* Inputs *)

\* touch events dispatched in one behaviour
MaxEvents == 4

\* timestamp of the first frame of an animation (only differences of
\* timestamps are read by step)
FirstFrameTime == 1000

\* time between two successive frames of an animation
FrameDeltas == {AnimationMs \div 2, AnimationMs}

P(x, y) == <<R(x), R(y)>>

\* evt.touches: the page coordinates of the active contacts
OneContact == {<<P(0, 0)>>, <<P(1, 0)>>}

TwoContacts == {<<P(0, 0), P(2, 0)>>,    \* the base pinch, 2 apart
                <<P(0, 0), P(1, 0)>>,    \* 1 apart
                <<P(0, 0), P(4, 0)>>,    \* 4 apart
                <<P(1, 0), P(3, 0)>>,    \* the base pinch moved by (1, 0)
                <<P(1, 0), P(5, 0)>>,    \* 4 apart and moved by (1, 0)
                <<P(0, 0), P(0, 2)>>,    \* the base pinch turned by a quarter
                <<P(1, 0), P(1, 0)>>}    \* both contacts at one point

ThreeContacts == {<<P(0, 0), P(2, 0), P(1, 1)>>}

NoContact == {<< >>}

Geometry(pw, ph, ww, wh, oL) ==
    [pixelSize |-> [width |-> R(pw), height |-> R(ph)],
     windowSize |-> [width |-> R(ww), height |-> R(wh)],
     offsetLeft |-> R(oL), offsetTop |-> R(0)]

Config(rot, min, max, bnd, raf, g) ==
    [rotate |-> rot, minScale |-> min, maxScale |-> max, boundaries |-> bnd,
     requestAnimationFrame |-> raf,
     pixelSize |-> g.pixelSize, windowSize |-> g.windowSize,
     offsetLeft |-> g.offsetLeft, offsetTop |-> g.offsetTop]

Half == <<1, 2>>

Configs ==
    { Config(TRUE,  Null, Null, FALSE, TRUE,  Geometry(4, 4, 4, 8, 0)),
      Config(TRUE,  Half, R(2), FALSE, TRUE,  Geometry(4, 4, 4, 8, 0)),
      Config(FALSE, Half, R(2), FALSE, TRUE,  Geometry(4, 4, 4, 8, 0)),
      Config(TRUE,  Null, R(2), TRUE,  TRUE,  Geometry(4, 4, 4, 8, 0)),
      Config(TRUE,  Half, Null, TRUE,  TRUE,  Geometry(4, 4, 8, 4, 1)),
      Config(TRUE,  Half, R(2), FALSE, FALSE, Geometry(4, 4, 4, 8, 0)) }

---------------------------------------------------------------------------
(* The state machine *)

\* the controller and its host as the constructor leaves them
AtConstruction ==
    /\ mayBeDoubleTap = 0
    /\ isAnimationRunning = FALSE
    /\ curTouch = 0
    /\ activeZoom = identity
    /\ resultantZoom = identity
    /\ srcCoords = initCoords
    /\ destCoords = initCoords
    /\ style = Null
    /\ tapTimers = {}
    /\ graceTimers = 0
    /\ frames = << >>
    /\ pendingZoom = << >>
    /\ repaints = 0
    /\ lastCb = [name |-> "constructor", touches |-> << >>,
                 wasRunning |-> FALSE, wasTouch |-> 0]
    /\ srcN = -1
    /\ destN = -1
    /\ nEvents = 0
    /\ destroyed = FALSE
    /\ thrown = FALSE
    /\ curState = Undefined

Init ==
    /\ cfg \in Configs
    /\ AtConstruction
    /\ calc = Null

\* The state after a callback that left the controller as `me`.
Becomes(me, name, touches) ==
    /\ mayBeDoubleTap' = me.mayBeDoubleTap
    /\ isAnimationRunning' = me.isAnimationRunning
    /\ curTouch' = me.curTouch
    /\ activeZoom' = me.activeZoom
    /\ resultantZoom' = me.resultantZoom
    /\ srcCoords' = me.srcCoords
    /\ destCoords' = me.destCoords
    /\ style' = me.style
    /\ tapTimers' = me.tapTimers
    /\ graceTimers' = me.graceTimers
    /\ frames' = me.frames
    /\ repaints' = me.repaints
    /\ srcN' = me.srcN
    /\ destN' = me.destN
    /\ lastCb' = [name |-> name, touches |-> touches,
                  wasRunning |-> isAnimationRunning, wasTouch |-> curTouch]
    /\ cfg' = cfg
    /\ destroyed' = destroyed
    /\ thrown' = thrown
    /\ curState' = curState
    /\ calc' = calc

\* touchstart, first listener: handleTouchStart
TouchStart(t) ==
    /\ pendingZoom = << >>
    /\ nEvents < MaxEvents
    /\ Becomes(handleTouchStart(Me, t), "handleTouchStart", t)
    /\ pendingZoom' = <<t>>
    /\ nEvents' = nEvents + 1

\* touchstart, second listener: handleZoom on the same event
TouchStartZoom ==
    /\ pendingZoom # << >>
    /\ Becomes(handleZoom(Me, pendingZoom[1]), "handleZoom", pendingZoom[1])
    /\ pendingZoom' = << >>
    /\ nEvents' = nEvents

\* touchmove: handleZoom
TouchMove(t) ==
    /\ pendingZoom = << >>
    /\ nEvents < MaxEvents
    /\ Becomes(handleZoom(Me, t), "handleZoom", t)
    /\ pendingZoom' = << >>
    /\ nEvents' = nEvents + 1

\* touchend: handleZoom
TouchEnd(t) ==
    /\ pendingZoom = << >>
    /\ nEvents < MaxEvents
    /\ Becomes(handleZoom(Me, t), "handleZoom", t)
    /\ pendingZoom' = << >>
    /\ nEvents' = nEvents + 1

\* the 300ms timer of handleTouchStart expires
TapTimeout ==
    /\ pendingZoom = << >>
    /\ \E h \in tapTimers :
          Becomes(tapTimeoutCb([Me EXCEPT !.tapTimers = @ \ {h}]),
                  "tapTimeout", << >>)
    /\ UNCHANGED <<pendingZoom, nEvents>>

\* the 100ms grace timer of step expires
GraceTimeout ==
    /\ pendingZoom = << >>
    /\ graceTimers > 0
    /\ Becomes(graceTimeoutCb([Me EXCEPT !.graceTimers = @ - 1]),
               "graceTimeout", << >>)
    /\ UNCHANGED <<pendingZoom, nEvents>>

\* an animation frame: the oldest requested step runs
Frame(d) ==
    /\ pendingZoom = << >>
    /\ frames # << >>
    /\ LET time == IF Head(frames).time = 0 THEN FirstFrameTime
                   ELSE Head(frames).time + d
       IN  Becomes(step(Me, time), "step", << >>)
    /\ UNCHANGED <<pendingZoom, nEvents>>

Next ==
    \/ \E t \in OneContact \cup TwoContacts \cup ThreeContacts : TouchStart(t)
    \/ TouchStartZoom
    \/ \E t \in OneContact \cup TwoContacts \cup ThreeContacts : TouchMove(t)
    \/ \E t \in NoContact \cup OneContact \cup TwoContacts : TouchEnd(t)
    \/ TapTimeout
    \/ GraceTimeout
    \/ \E d \in FrameDeltas : Frame(d)

Spec == Init /\ [][Next]_vars

\* minScale configured and a frame scheduler available
InitSnapBack == Init /\ Truthy(cfg.minScale) /\ cfg.requestAnimationFrame

\* a step requested through requestAnimationFrame is waiting to run
FrameDue == pendingZoom = << >> /\ frames # << >>

\* The browser's scheduling: the grace timer of step fires, the second
\* touchstart listener runs in the same dispatch as the first, and a requested
\* animation frame is delivered.  The last two are weak fairness of
\* TouchStartZoom and of Frame with the enabling condition written as the
\* action's guard.
SpecSnapBack ==
    /\ InitSnapBack
    /\ [][Next]_vars
    /\ WF_vars(GraceTimeout)
    /\ []<>(pendingZoom = << >>)
    /\ ([]<>(~FrameDue) \/ []<><<lastCb'.name = "step">>_vars)

\* scale-only gestures with neither a floor nor a ceiling configured
InitScaleOnly ==
    /\ cfg = Config(FALSE, Null, Null, FALSE, TRUE, Geometry(4, 4, 4, 8, 0))
    /\ AtConstruction
    /\ calc = Null

SpecScaleOnly == InitScaleOnly /\ [][Next]_vars

---------------------------------------------------------------------------
(* The public methods reset and destroy *)

\* touch events and public calls in one behaviour with public calls
MaxApiEvents == 3

\* a call of the public reset(useOriginalIdentity) between two callbacks;
\* lastCb keeps the argument in place of the touches
Reset(u) ==
    /\ pendingZoom = << >>
    /\ nEvents < MaxApiEvents
    /\ Becomes(reset(Me, u), "reset", <<u>>)
    /\ pendingZoom' = << >>
    /\ nEvents' = nEvents + 1

\* destroy: the transform is removed from the element's style, the four
\* listeners are removed and every own property of the controller is
\* deleted (a deleted property reads as undefined).  Timers and requested
\* frames stay armed.  cfg stays: it also holds the element's and the
\* viewport's geometry, and nothing reads this.config afterwards.
Destroy ==
    /\ pendingZoom = << >>
    /\ destroyed' = TRUE
    /\ style' = Null
    /\ mayBeDoubleTap' = Undefined
    /\ isAnimationRunning' = Undefined
    /\ curTouch' = Undefined
    /\ activeZoom' = Undefined
    /\ resultantZoom' = Undefined
    /\ srcCoords' = Undefined
    /\ destCoords' = Undefined
    /\ repaints' = 0
    /\ lastCb' = [name |-> "destroy", touches |-> << >>,
                  wasRunning |-> isAnimationRunning, wasTouch |-> curTouch]
    /\ UNCHANGED <<cfg, tapTimers, graceTimers, frames, pendingZoom, srcN,
                   destN, nEvents, thrown, curState, calc>>

\* the 300ms timer expires after destroy: me.mayBeDoubleTap = null
TapTimeoutDestroyed ==
    /\ \E h \in tapTimers : tapTimers' = tapTimers \ {h}
    /\ mayBeDoubleTap' = 0
    /\ repaints' = 0
    /\ lastCb' = [name |-> "tapTimeout", touches |-> << >>,
                  wasRunning |-> isAnimationRunning, wasTouch |-> curTouch]
    /\ UNCHANGED <<cfg, isAnimationRunning, curTouch, activeZoom, resultantZoom,
                   srcCoords, destCoords, style, graceTimers, frames,
                   pendingZoom, srcN, destN, nEvents, destroyed, thrown,
                   curState, calc>>

\* the grace timer expires after destroy: me.isAnimationRunning = false
GraceTimeoutDestroyed ==
    /\ graceTimers > 0
    /\ graceTimers' = graceTimers - 1
    /\ isAnimationRunning' = FALSE
    /\ repaints' = 0
    /\ lastCb' = [name |-> "graceTimeout", touches |-> << >>,
                  wasRunning |-> isAnimationRunning, wasTouch |-> curTouch]
    /\ UNCHANGED <<cfg, mayBeDoubleTap, curTouch, activeZoom, resultantZoom,
                   srcCoords, destCoords, style, tapTimers, frames,
                   pendingZoom, srcN, destN, nEvents, destroyed, thrown,
                   curState, calc>>

\* A requested frame runs after destroy: step computes progress, setZoom
\* assigns this.resultantZoom and repaint reads this.elem.style with
\* this.elem deleted, a TypeError; neither the grace timer nor the next
\* frame is reached.
FrameDestroyed(d) ==
    /\ frames # << >>
    /\ LET c == Head(frames)
           time == IF c.time = 0 THEN FirstFrameTime ELSE c.time + d
           startTime == IF c.startTime = 0 THEN time ELSE c.startTime
           progress == RDiv(R(time - startTime), R(AnimationMs))
       IN  resultantZoom' = IF RGe(progress, R(1)) THEN c.newIdentity
                            ELSE TransformAvg(c.Z, c.newIdentity, progress)
    /\ frames' = Tail(frames)
    /\ thrown' = TRUE
    /\ repaints' = 0
    /\ lastCb' = [name |-> "step", touches |-> << >>,
                  wasRunning |-> isAnimationRunning, wasTouch |-> curTouch]
    /\ UNCHANGED <<cfg, mayBeDoubleTap, isAnimationRunning, curTouch,
                   activeZoom, srcCoords, destCoords, style, tapTimers,
                   graceTimers, pendingZoom, srcN, destN, nEvents, destroyed,
                   curState, calc>>

\* the callbacks of a controller that is not destroyed
Live == ~destroyed /\ Next /\ nEvents' <= MaxApiEvents

\* the callbacks still delivered to a destroyed controller
AfterDestroy ==
    /\ destroyed
    /\ \/ TapTimeoutDestroyed
       \/ GraceTimeoutDestroyed
       \/ \E d \in FrameDeltas : FrameDestroyed(d)

NextApi ==
    \/ Live
    \/ ~destroyed /\ \E u \in BOOLEAN : Reset(u)
    \/ ~destroyed /\ Destroy
    \/ AfterDestroy

\* the configurations with a ceiling: with and without a floor, a frame
\* scheduler and boundaries
InitApi == Init /\ Truthy(cfg.maxScale) /\ cfg.rotate

SpecApi == InitApi /\ [][NextApi]_vars

---------------------------------------------------------------------------
(* The pure functions, called on bounded arguments *)

\* largest coordinate of a contact given to zoom
MaxCoord == 2

\* largest shift, either way, of a transform given to checkBoundaries
MaxShift == 6

\* integer matrices: the unit, a scaling, a quarter turn, a shear, a
\* singular one and one with no special form
Matrices ==
    { <<<<R(1), R(0)>>, <<R(0), R(1)>>>>,
      <<<<R(2), R(0)>>, <<R(0), R(2)>>>>,
      <<<<R(0), R(1)>>, <<R(-1), R(0)>>>>,
      <<<<R(1), R(2)>>, <<R(0), R(1)>>>>,
      <<<<R(1), R(1)>>, <<R(1), R(1)>>>>,
      <<<<R(2), R(-1)>>, <<R(3), R(1)>>>> }

Vectors == {P(0, 0), P(1, -1), P(2, 3)}

Transforms == {Transform(M, v) : M \in Matrices, v \in Vectors}

Points == {P(x, y) : x \in 0..MaxCoord, y \in 0..MaxCoord}

\* the pairs the specification gives as examples
ExamplePairs ==
    { <<<<P(0, 0), P(10, 0)>>, <<P(5, 5), P(25, 5)>>>>,
      <<<<P(0, 0), P(10, 0)>>, <<P(0, 0), P(0, 20)>>>> }

\* source pairs with two different points, any destination pair
GesturePairs ==
    {<<<<s0, s1>>, <<d0, d1>>>> : s0 \in Points, s1 \in Points,
                                  d0 \in Points, d1 \in Points}

\* justscale takes two square roots: an argument is kept for rotate = false
\* when both squared lengths are perfect squares, or equal
Rooted(g) ==
    LET alen2 == dot(minus(g[1][2], g[1][1]), minus(g[1][2], g[1][1]))
        blen2 == dot(minus(g[2][2], g[2][1]), minus(g[2][2], g[2][1]))
    IN  \/ alen2 = blen2
        \/ IsSquare(alen2[1]) /\ IsSquare(blen2[1])

ZoomCalls ==
    {[op |-> "zoom", s |-> g[1], d |-> g[2], rot |-> rot, out |-> Null] :
        g \in {h \in GesturePairs \cup ExamplePairs : h[1][1] # h[1][2]},
        rot \in BOOLEAN}

CascadeCalls ==
    {[op |-> "cascade", T |-> T, U |-> U, V |-> V, x |-> x, out |-> Null] :
        T \in Transforms, U \in Transforms, V \in Transforms,
        x \in {P(1, 0), P(2, -3)}}

\* transforms given to checkBoundaries: scaled by 1/2, 1 or 2, or turned,
\* and shifted
BoundaryCalls ==
    {[op |-> "checkBoundaries",
      rz |-> Transform(M, P(x, y)), out |-> Null] :
        M \in {<<<<Half, R(0)>>, <<R(0), Half>>>>,
               <<<<R(1), R(0)>>, <<R(0), R(1)>>>>,
               <<<<R(2), R(0)>>, <<R(0), R(2)>>>>,
               <<<<R(1), R(1)>>, <<R(-1), R(1)>>>>},
        x \in -MaxShift..MaxShift, y \in -MaxShift..MaxShift}

\* portrait and landscape viewports, the element smaller than, as high as
\* and larger than the viewport; boundaries on and off
BoundaryConfigs ==
    {Config(TRUE, Null, Null, bnd, TRUE, g) :
        bnd \in BOOLEAN,
        g \in {Geometry(2, 2, 2, 4, 0), Geometry(2, 4, 2, 4, 0),
               Geometry(4, 6, 2, 4, 0), Geometry(4, 2, 4, 2, 1),
               Geometry(2, 2, 4, 2, 0)}}

InitPure ==
    /\ AtConstruction
    /\ \/ /\ calc \in CascadeCalls \cup {c \in ZoomCalls : c.rot \/ Rooted(<<c.s, c.d>>)}
          /\ cfg = Config(TRUE, Null, Null, FALSE, TRUE, Geometry(4, 4, 4, 8, 0))
       \/ /\ calc \in BoundaryCalls
          /\ cfg \in BoundaryConfigs

Returns(out) ==
    /\ calc.out = Null
    /\ calc' = [calc EXCEPT !.out = out]
    /\ UNCHANGED <<cfg, mayBeDoubleTap, isAnimationRunning, curTouch,
                   activeZoom, resultantZoom, srcCoords, destCoords, style,
                   tapTimers, graceTimers, frames, pendingZoom, repaints,
                   lastCb, srcN, destN, nEvents, destroyed, thrown, curState>>

\* cascade, called in the five ways the algebraic laws speak of
CallCascade ==
    /\ calc.op = "cascade"
    /\ Returns([TU |-> cascade(calc.T, calc.U),
                TU_V |-> cascade(cascade(calc.T, calc.U), calc.V),
                T_UV |-> cascade(calc.T, cascade(calc.U, calc.V)),
                IT |-> cascade(identity, calc.T),
                TI |-> cascade(calc.T, identity)])

CallZoom ==
    /\ calc.op = "zoom"
    /\ Returns(zoom(calc.s, calc.d, calc.rot))

CallCheckBoundaries ==
    /\ calc.op = "checkBoundaries"
    /\ Returns(checkBoundaries(calc.rz))

NextPure == CallCascade \/ CallZoom \/ CallCheckBoundaries

SpecPure == InitPure /\ [][NextPure]_vars

---------------------------------------------------------------------------
(* The state machine of src/zoom-1.0.7-beta.js.  Its transform algebra and *)
(* setZoom, finalize and repaint are those of the released controller.     *)

\* touch events dispatched to the beta controller in one behaviour
MaxBetaEvents == 5

\* the largest number of contacts of an event
MaxContacts == 3

\* The beta controller `me` inside one callback; thrown is set by the
\* statement that throws, and the statements after it do not run.
BetaMe == [curState |-> curState,
           activeZoom |-> activeZoom,
           resultantZoom |-> resultantZoom,
           srcCoords |-> srcCoords,
           destCoords |-> destCoords,
           style |-> style,
           tapTimers |-> tapTimers,
           frames |-> frames,
           repaints |-> 0,
           thrown |-> FALSE]

\* setSrcAndDest(touches): getCoords reads t.length, a TypeError when
\* touches is undefined, and t[0].pageX, a TypeError when it is empty
beta_setSrcAndDest(me, touches) ==
    IF touches = Undefined
    THEN [me EXCEPT !.thrown = TRUE]
    ELSE [me EXCEPT !.srcCoords = getCoords(touches),
                    !.destCoords = getCoords(touches)]

beta_setDest(me, touches) ==
    IF touches = Undefined
    THEN [me EXCEPT !.thrown = TRUE]
    ELSE [me EXCEPT !.destCoords = getCoords(touches)]

\* Zoom.prototype.previewZoom reads me.srcCoords, and `me` is a variable of
\* the constructor, not of this method: a ReferenceError
beta_previewZoom(me) == [me EXCEPT !.thrown = TRUE]

\* the completion callback of the double-tap animation
to2(me) ==
    IF me.curState = 3
    THEN finalize(setZoom([me EXCEPT !.curState = 0], identity))
    ELSE me

\* reset(cb) up to the first requestAnimationFrame(step); every caller
\* passes to2 as cb
beta_reset(me) ==
    IF cfg.requestAnimationFrame
    THEN [me EXCEPT !.frames = Append(me.frames,
                                      [Z |-> me.activeZoom,
                                       newIdentity |-> identity,
                                       startTime |-> 0,
                                       time |-> 0])]
    ELSE to2(me)

beta_step(me, time) ==
    LET c == Head(me.frames)
        startTime == IF c.startTime = 0 THEN time ELSE c.startTime
        progress == RDiv(R(time - startTime), R(AnimationMs))
        rest == [me EXCEPT !.frames = Tail(me.frames)]
    IN  IF RGe(progress, R(1))
        THEN to2(rest)
        ELSE LET shown == setZoom(rest, TransformAvg(c.Z, identity, progress))
             IN  [shown EXCEPT !.frames =
                      Append(shown.frames,
                             [c EXCEPT !.startTime = startTime, !.time = time])]

\* default: console.error(..., touches.length, ...) reads the length of
\* touches, a TypeError when touches is undefined
beta_unexpected(me, touches) ==
    IF touches = Undefined THEN [me EXCEPT !.thrown = TRUE] ELSE me

\* ts1 that restarts the gesture in state 3
ts1_unguarded(me, touches) ==
    CASE me.curState = 0 ->
            LET a == beta_setSrcAndDest([me EXCEPT !.curState = 10], touches)
            IN  IF a.thrown THEN a
                ELSE [a EXCEPT !.tapTimers = @ \cup {newHandle(a)}]
      [] me.curState = 100 -> beta_reset([me EXCEPT !.curState = 3])
      [] me.curState \in {2, 3} ->
            beta_setSrcAndDest(finalize([me EXCEPT !.curState = 1]), touches)
      [] me.curState = 3 -> me
      [] OTHER -> beta_unexpected(me, touches)

ts1(me, touches) ==
    CASE me.curState = 0 ->
            LET a == beta_setSrcAndDest([me EXCEPT !.curState = 10], touches)
            IN  IF a.thrown THEN a
                ELSE [a EXCEPT !.tapTimers = @ \cup {newHandle(a)}]
      [] me.curState = 100 -> beta_reset([me EXCEPT !.curState = 3])
      [] me.curState = 2 ->
            beta_setSrcAndDest(finalize([me EXCEPT !.curState = 1]), touches)
      [] me.curState = 3 -> me
      [] OTHER -> beta_unexpected(me, touches)

ts2(me, touches) ==
    CASE me.curState = 0 ->
            beta_setSrcAndDest([me EXCEPT !.curState = 2], touches)
      [] me.curState \in {1, 10} ->
            beta_setSrcAndDest(finalize([me EXCEPT !.curState = 2]), touches)
      [] me.curState = 3 -> me
      [] OTHER -> beta_unexpected(me, touches)

tm1(me, touches) ==
    CASE me.curState \in {1, 10} ->
            LET a == beta_setDest([me EXCEPT !.curState = 1], touches)
            IN  IF a.thrown THEN a ELSE beta_previewZoom(a)
      [] me.curState = 2 ->
            beta_setSrcAndDest(finalize([me EXCEPT !.curState = 1]), touches)
      [] me.curState = 3 -> me
      [] OTHER -> beta_unexpected(me, touches)

tm2(me, touches) ==
    CASE me.curState = 2 ->
            LET a == beta_setDest([me EXCEPT !.curState = 1], touches)
            IN  IF a.thrown THEN a ELSE beta_previewZoom(a)
      [] me.curState = 3 -> me
      [] OTHER -> beta_unexpected(me, touches)

te1(me, touches) ==
    CASE me.curState = 1 -> finalize([me EXCEPT !.curState = 0])
      [] me.curState = 2 ->
            beta_setSrcAndDest(finalize([me EXCEPT !.curState = 1]), touches)
      [] me.curState = 10 -> [me EXCEPT !.curState = 100]
      [] me.curState = 3 -> me
      [] OTHER -> beta_unexpected(me, touches)

te2(me, touches) ==
    CASE me.curState = 2 -> finalize([me EXCEPT !.curState = 0])
      [] me.curState = 3 -> me
      [] OTHER -> beta_unexpected(me, touches)

\* the callback of the 300ms timer armed by ts1
to1(me) ==
    CASE me.curState = 100 -> finalize([me EXCEPT !.curState = 0])
      [] me.curState = 10 -> [me EXCEPT !.curState = 1]
      [] OTHER -> me

\* The listeners call ts1() ... te2() with no argument, so `touches` is
\* undefined inside every handler; an event with neither one nor two
\* contacts reaches no handler.
touchstartListener(me, n) ==
    CASE n = 1 -> ts1(me, Undefined)
      [] n = 2 -> ts2(me, Undefined)
      [] OTHER -> me

touchmoveListener(me, n) ==
    CASE n = 1 -> tm1(me, Undefined)
      [] n = 2 -> tm2(me, Undefined)
      [] OTHER -> me

touchendListener(me, n) ==
    CASE n = 1 -> te1(me, Undefined)
      [] n = 2 -> te2(me, Undefined)
      [] OTHER -> me

\* the handler an event with n contacts reaches
Handler(kind, n) ==
    IF n \in {1, 2}
    THEN [touchstart |-> <<"ts1", "ts2">>,
          touchmove |-> <<"tm1", "tm2">>,
          touchend |-> <<"te1", "te2">>][kind][n]
    ELSE kind

\* rotate true and pan false are the defaults of the beta constructor
BetaConfigs ==
    { Config(TRUE, Null, Null, FALSE, raf, Geometry(4, 4, 4, 8, 0)) :
         raf \in BOOLEAN }

InitBeta ==
    /\ cfg \in BetaConfigs
    /\ curState = 0
    /\ activeZoom = identity
    /\ resultantZoom = identity
    /\ srcCoords = initCoords
    /\ destCoords = initCoords
    /\ style = Null
    /\ tapTimers = {}
    /\ frames = << >>
    /\ repaints = 0
    /\ lastCb = [name |-> "constructor", touches |-> << >>,
                 wasRunning |-> FALSE, wasTouch |-> 0]
    /\ nEvents = 0
    /\ thrown = FALSE
    /\ mayBeDoubleTap = Undefined
    /\ isAnimationRunning = Undefined
    /\ curTouch = Undefined
    /\ graceTimers = 0
    /\ pendingZoom = << >>
    /\ srcN = -1
    /\ destN = -1
    /\ destroyed = FALSE
    /\ calc = Null

\* The state after a callback that left the beta controller as `me`.
BetaBecomes(me, name) ==
    /\ curState' = me.curState
    /\ activeZoom' = me.activeZoom
    /\ resultantZoom' = me.resultantZoom
    /\ srcCoords' = me.srcCoords
    /\ destCoords' = me.destCoords
    /\ style' = me.style
    /\ tapTimers' = me.tapTimers
    /\ frames' = me.frames
    /\ repaints' = me.repaints
    /\ thrown' = me.thrown
    /\ lastCb' = [name |-> name, touches |-> << >>,
                  wasRunning |-> FALSE, wasTouch |-> 0]
    /\ UNCHANGED <<cfg, mayBeDoubleTap, isAnimationRunning, curTouch,
                   graceTimers, pendingZoom, srcN, destN, destroyed, calc>>

BetaTouchStart(n) ==
    /\ nEvents < MaxBetaEvents
    /\ BetaBecomes(touchstartListener(BetaMe, n), Handler("touchstart", n))
    /\ nEvents' = nEvents + 1

BetaTouchMove(n) ==
    /\ nEvents < MaxBetaEvents
    /\ BetaBecomes(touchmoveListener(BetaMe, n), Handler("touchmove", n))
    /\ nEvents' = nEvents + 1

BetaTouchEnd(n) ==
    /\ nEvents < MaxBetaEvents
    /\ BetaBecomes(touchendListener(BetaMe, n), Handler("touchend", n))
    /\ nEvents' = nEvents + 1

\* an animation frame: the oldest requested step runs
BetaFrame(d) ==
    /\ frames # << >>
    /\ LET time == IF Head(frames).time = 0 THEN FirstFrameTime
                   ELSE Head(frames).time + d
       IN  BetaBecomes(beta_step(BetaMe, time), "step")
    /\ UNCHANGED nEvents

\* No action delivers to1: its timer is armed by ts1 only after
\* setSrcAndDest(touches) has returned, which it never does.
NextBeta ==
    \/ \E n \in 0..MaxContacts : BetaTouchStart(n)
    \/ \E n \in 0..MaxContacts : BetaTouchMove(n)
    \/ \E n \in 0..MaxContacts : BetaTouchEnd(n)
    \/ \E d \in FrameDeltas : BetaFrame(d)

SpecBeta == InitBeta /\ [][NextBeta]_vars

---------------------------------------------------------------------------
(* Properties *)

\* the coordinates an event with touches t carries: its first two contacts
\* relative to the element, the second synthesized at (+1, +1) for one contact
EventCoords(t) ==
    LET p0 == <<RSub(t[1][1], cfg.offsetLeft), RSub(t[1][2], cfg.offsetTop)>>
    IN  <<p0, IF Len(t) = 1 THEN <<RAdd(p0[1], R(1)), RAdd(p0[2], R(1))>>
              ELSE <<RSub(t[2][1], cfg.offsetLeft), RSub(t[2][2], cfg.offsetTop)>>>>

\* this step runs a touch listener
TouchStep == lastCb'.name \in {"handleZoom", "handleTouchStart"}

\* this step runs handleZoom with no animation running
ZoomStep == lastCb'.name = "handleZoom" /\ ~isAnimationRunning

\* the last callback was handleZoom, processed, on the recorded contact
\* count and at least one contact: the preview pipeline ran
PipelineRan ==
    /\ lastCb.name = "handleZoom"
    /\ ~lastCb.wasRunning
    /\ Len(lastCb.touches) = lastCb.wasTouch
    /\ lastCb.wasTouch > 0

\* C1: while isAnimationRunning is true, a touchstart, touchmove or touchend
\* with any number of contacts changes none of activeZoom, resultantZoom,
\* srcCoords, destCoords, curTouch and mayBeDoubleTap, arms or cancels no
\* timer, requests no frame and does not repaint.
C1_TouchIgnoredWhileAnimating ==
    [][(isAnimationRunning /\ TouchStep)
          => /\ Fields' = Fields
             /\ tapTimers' = tapTimers
             /\ frames' = frames
             /\ style' = style
             /\ repaints' = 0]_vars

\* a two-contact event reached handleZoom while the animation was running
C1_Witness ==
    /\ lastCb.name = "handleZoom"
    /\ lastCb.wasRunning
    /\ Len(lastCb.touches) = 2
    /\ isAnimationRunning

\* C2: a processed touch event whose contact count N differs from curTouch
\* finalizes: afterwards activeZoom is the resultantZoom, resultantZoom is
\* unchanged and not repainted, curTouch is N, and for N > 0 srcCoords and
\* destCoords are both the event's coordinates.
C2_CountChangeFinalizes ==
    [][(ZoomStep /\ Len(lastCb'.touches) # curTouch)
          => LET t == lastCb'.touches
             IN  /\ activeZoom' = resultantZoom
                 /\ resultantZoom' = resultantZoom
                 /\ style' = style
                 /\ repaints' = 0
                 /\ curTouch' = Len(t)
                 /\ Len(t) > 0 => /\ srcCoords' = EventCoords(t)
                                  /\ destCoords' = EventCoords(t)]_vars

\* a change from two contacts to one committed a preview that is not the identity
C2_Witness ==
    /\ lastCb.name = "handleZoom"
    /\ ~lastCb.wasRunning
    /\ lastCb.wasTouch = 2
    /\ Len(lastCb.touches) = 1
    /\ curTouch = 1
    /\ activeZoom = resultantZoom
    /\ activeZoom # identity
    /\ srcCoords = EventCoords(lastCb.touches)

\* the transform a same-count event with touches t proposes
Proposed(t) == cascade(zoom(srcCoords, EventCoords(t), cfg.rotate), activeZoom)

\* both diagonal entries of T are at most minScale
AtMostMin(T) ==
    /\ Truthy(cfg.minScale)
    /\ RLe(T.A[1][1], cfg.minScale)
    /\ RLe(T.A[2][2], cfg.minScale)

\* both diagonal entries of T exceed maxScale
AboveMax(T) ==
    /\ Truthy(cfg.maxScale)
    /\ RGt(T.A[1][1], cfg.maxScale)
    /\ RGt(T.A[2][2], cfg.maxScale)

\* this step runs the preview pipeline on touches lastCb'.touches
PipelineStep ==
    /\ ZoomStep
    /\ Len(lastCb'.touches) = curTouch
    /\ curTouch > 0

\* C3: a processed touch event on the recorded contact count N > 0 whose
\* proposed transform passes the scale check makes resultantZoom
\* checkBoundaries(cascade(zoom(srcCoords, new destCoords, rotate), activeZoom))
\* and leaves activeZoom, srcCoords and curTouch unchanged.
C3_SameCountPreviews ==
    [][(PipelineStep /\ ~AtMostMin(Proposed(lastCb'.touches))
                     /\ ~AboveMax(Proposed(lastCb'.touches)))
          => /\ resultantZoom' = checkBoundaries(Proposed(lastCb'.touches))
             /\ destCoords' = EventCoords(lastCb'.touches)
             /\ activeZoom' = activeZoom
             /\ srcCoords' = srcCoords
             /\ curTouch' = curTouch]_vars

\* a second two-contact move was previewed on top of an earlier preview
C3_Witness ==
    /\ PipelineRan
    /\ curTouch = 2
    /\ repaints = 1
    /\ resultantZoom # activeZoom
    /\ destCoords # srcCoords
    /\ resultantZoom = checkBoundaries(cascade(zoom(srcCoords, destCoords, cfg.rotate),
                                               activeZoom))

\* C4: whenever the preview pipeline has run, srcCoords and destCoords were
\* both captured from events with as many contacts as curTouch records;
\* neither is the constructor's initial value.
C4_PipelineOnSameCountCoords ==
    PipelineRan => /\ srcN = curTouch
                   /\ destN = curTouch
                   /\ srcCoords # initCoords
                   /\ destCoords # initCoords

\* the pipeline ran on one contact after the count had been two
C4_Witness ==
    /\ PipelineRan
    /\ curTouch = 1
    /\ srcN = 1
    /\ destN = 1
    /\ destCoords # srcCoords
    /\ nEvents = 4
    /\ activeZoom # identity

\* this step runs handleTouchStart, processed, on one contact while the
\* double-tap timer is pending
DoubleTapStep ==
    /\ lastCb'.name = "handleTouchStart"
    /\ ~isAnimationRunning
    /\ Len(lastCb'.touches) = 1
    /\ mayBeDoubleTap # 0

\* the zoomed-in resting transform of a double tap
ZoomedIn ==
    LET max == cfg.maxScale
        middleX == RNeg(RAdd(RDiv(RSub(RMul(cfg.pixelSize.width, max),
                                       cfg.windowSize.width), R(2)),
                             cfg.offsetLeft))
        middleY == RNeg(RDiv(RMul(cfg.pixelSize.height, RSub(max, R(1))), R(2)))
    IN  Transform(<<<<max, R(0)>>, <<R(0), max>>>>, <<middleX, middleY>>)

\* maxScale is configured and both diagonal entries of activeZoom are 1
AtRestWithMax ==
    /\ Truthy(cfg.maxScale)
    /\ activeZoom.A[1][1] = R(1)
    /\ activeZoom.A[2][2] = R(1)

\* this step runs the last frame of an animation
FinalFrameStep == lastCb'.name = "step" /\ graceTimers' = graceTimers + 1

\* C5 as stated: a processed single-contact touchstart while the double-tap
\* timer is pending cancels the timer and triggers a reset whose final
\* resultantZoom is the identity, in every configuration.
C5_DoubleTapResetsToIdentity ==
    [][DoubleTapStep
          => /\ mayBeDoubleTap' = 0
             /\ tapTimers' = {}
             /\ IF cfg.requestAnimationFrame
                THEN /\ isAnimationRunning'
                     /\ Len(frames') = 1
                     /\ frames'[1].newIdentity = identity
                ELSE resultantZoom' = identity]_vars

\* C5 amended: a processed single-contact touchstart while the double-tap
\* timer is pending cancels the timer and triggers a reset.  With a frame
\* scheduler the reset is animated from activeZoom and its last frame shows
\* the target exactly: the identity, unless maxScale is configured and both
\* diagonal entries of activeZoom are 1, where the target is the zoomed-in
\* transform.  Without a frame scheduler resultantZoom is set to the identity
\* at once.
C5_DoubleTapResetsToTarget ==
    /\ [][DoubleTapStep
             => /\ mayBeDoubleTap' = 0
                /\ tapTimers' = {}
                /\ IF cfg.requestAnimationFrame
                   THEN /\ isAnimationRunning'
                        /\ Len(frames') = 1
                        /\ frames'[1].Z = activeZoom
                        /\ frames'[1].newIdentity =
                              IF AtRestWithMax THEN ZoomedIn ELSE identity
                        /\ resultantZoom' = resultantZoom
                   ELSE /\ resultantZoom' = identity
                        /\ ~isAnimationRunning'
                        /\ frames' = << >>]_vars
    /\ [][FinalFrameStep => resultantZoom' = Head(frames).newIdentity]_vars

\* the animation started by a double tap at rest ended on the zoomed-in transform
C5_Witness ==
    /\ lastCb.name = "step"
    /\ frames = << >>
    /\ graceTimers = 1
    /\ isAnimationRunning
    /\ Truthy(cfg.maxScale)
    /\ resultantZoom = ZoomedIn
    /\ resultantZoom # identity

\* C6: the expiry of the double-tap timer clears mayBeDoubleTap and changes
\* nothing else (no reset, no transform change, no repaint); a single-contact
\* touchstart processed with no timer pending arms a fresh timer and resets
\* nothing.
C6_ExpiryClearsPending ==
    /\ [][lastCb'.name = "tapTimeout"
             => /\ mayBeDoubleTap' = 0
                /\ Fields' = [Fields EXCEPT !.mayBeDoubleTap = 0]
                /\ tapTimers' = tapTimers \ {mayBeDoubleTap}
                /\ frames' = frames
                /\ graceTimers' = graceTimers
                /\ style' = style
                /\ repaints' = 0]_vars
    /\ [][(lastCb'.name = "handleTouchStart" /\ ~isAnimationRunning
             /\ Len(lastCb'.touches) = 1 /\ mayBeDoubleTap = 0)
             => /\ mayBeDoubleTap' # 0
                /\ tapTimers' = tapTimers \cup {mayBeDoubleTap'}
                /\ mayBeDoubleTap' \notin tapTimers
                /\ Fields' = [Fields EXCEPT !.mayBeDoubleTap = mayBeDoubleTap']
                /\ frames' = frames
                /\ style' = style
                /\ repaints' = 0]_vars

\* the timer expired while the tapping contact was still down
C6_Witness ==
    /\ lastCb.name = "tapTimeout"
    /\ mayBeDoubleTap = 0
    /\ tapTimers = {}
    /\ curTouch = 1
    /\ ~isAnimationRunning

\* handleZoom, processed, started an animation: the snap-back of checkPan
SnapBackStarted ==
    /\ lastCb.name = "handleZoom"
    /\ ~lastCb.wasRunning
    /\ isAnimationRunning

\* C7: with minScale configured and a frame scheduler, a same-count event
\* proposing a transform with both diagonal entries at most minScale leaves
\* resultantZoom as it is, unpainted, and starts an animated reset to the
\* identity; with frames delivered and the grace timer firing, resultantZoom
\* eventually is the identity with isAnimationRunning false.
C7_MinScaleSnapBack ==
    /\ [][(PipelineStep /\ AtMostMin(Proposed(lastCb'.touches)))
             => /\ resultantZoom' = resultantZoom
                /\ style' = style
                /\ repaints' = 0
                /\ isAnimationRunning'
                /\ Len(frames') = 1
                /\ frames'[1].newIdentity = identity]_vars
    /\ (SnapBackStarted ~> (resultantZoom = identity /\ ~isAnimationRunning))

\* a snap-back started while a transform other than the identity was displayed
C7_Witness ==
    /\ SnapBackStarted
    /\ Truthy(cfg.minScale)
    /\ Len(frames) = 1
    /\ resultantZoom # identity
    /\ repaints = 0

\* C8: with maxScale >= 1 configured, resultantZoom never has both diagonal
\* entries greater than maxScale.
C8_NeverAboveMaxScale ==
    (Truthy(cfg.maxScale) /\ RGe(cfg.maxScale, R(1))) => ~AboveMax(resultantZoom)

\* a pinch-out beyond maxScale was rejected with the display at the ceiling
C8_Witness ==
    /\ PipelineRan
    /\ ~isAnimationRunning
    /\ repaints = 0
    /\ Truthy(cfg.maxScale)
    /\ resultantZoom.A[1][1] = cfg.maxScale
    /\ resultantZoom.A[2][2] = cfg.maxScale
    /\ AboveMax(cascade(zoom(srcCoords, destCoords, cfg.rotate), activeZoom))

\* this step runs the pipeline on a two-contact move that pinches out beyond
\* maxScale and pans: the first contact moved and the proposed translation
\* is not the displayed one
PinchOutAndPanStep ==
    /\ PipelineStep
    /\ Len(lastCb'.touches) = 2
    /\ AboveMax(Proposed(lastCb'.touches))
    /\ EventCoords(lastCb'.touches)[1] # destCoords[1]
    /\ Proposed(lastCb'.touches).b # resultantZoom.b

\* C9 as stated: a two-contact move that pinches out beyond maxScale and
\* pans still updates the translation b of resultantZoom.
C9_PanAppliedAtCeiling ==
    [][PinchOutAndPanStep => resultantZoom'.b # resultantZoom.b]_vars

\* C9 amended: a two-contact move that pinches out beyond maxScale and pans
\* is rejected whole: resultantZoom, its translation b included, is left
\* unchanged and nothing is repainted.
C9_PanRejectedAtCeiling ==
    [][PinchOutAndPanStep
          => /\ resultantZoom' = resultantZoom
             /\ style' = style
             /\ repaints' = 0]_vars

\* a two-contact move beyond maxScale whose first contact had moved was rejected
C9_Witness ==
    /\ PipelineRan
    /\ curTouch = 2
    /\ repaints = 0
    /\ ~isAnimationRunning
    /\ destCoords[1] # srcCoords[1]
    /\ AboveMax(cascade(zoom(srcCoords, destCoords, cfg.rotate), activeZoom))
    /\ cascade(zoom(srcCoords, destCoords, cfg.rotate), activeZoom).b # resultantZoom.b

\* C10: a touch event with more than two contacts changes none of curTouch,
\* srcCoords and destCoords, and curTouch is always 0, 1 or 2.
C10_MoreThanTwoContactsIgnored ==
    /\ curTouch \in {0, 1, 2}
    /\ (lastCb.name = "handleZoom" /\ Len(lastCb.touches) > 2)
          => /\ curTouch = lastCb.wasTouch
             /\ srcN # Len(lastCb.touches)
             /\ destN # Len(lastCb.touches)

\* every entry of the transform is a finite number
FiniteTransform(T) ==
    /\ \A i \in 1..2 : \A j \in 1..2 : IsFinite(T.A[i][j])
    /\ \A i \in 1..2 : IsFinite(T.b[i])

\* C11: zoom is guarded against a zero-length source vector, so no sequence
\* of touch events puts a NaN or an Infinity into resultantZoom or activeZoom.
C11_NoNaNOrInfinity ==
    FiniteTransform(resultantZoom) /\ FiniteTransform(activeZoom)

\* C12: while the controller is in use at most one chain of step callbacks
\* is pending, whichever way reset was called, and isAnimationRunning is
\* true whenever one is pending.
C12_AtMostOneAnimation ==
    ~destroyed => /\ Len(frames) <= 1
                  /\ frames # << >> => isAnimationRunning

\* this step calls reset(u) on a controller in use: the public reset, the
\* double tap (u false) or the snap-back of checkPan (u true)
ResetCallStep(u) ==
    /\ ~destroyed
    /\ \/ lastCb'.name = "reset" /\ lastCb'.touches = <<u>>
       \/ ~u /\ DoubleTapStep
       \/ u /\ PipelineStep /\ AtMostMin(Proposed(lastCb'.touches))

\* C13 as stated: without a frame scheduler reset sets resultantZoom at once
\* to the target of the selection rule (the identity, or the zoomed-in
\* transform when maxScale is configured, activeZoom is at rest and
\* useOriginalIdentity is false), requests no frame, arms no grace timer and
\* leaves isAnimationRunning false.
C13_SyncResetToSelectedTarget ==
    [][\A u \in BOOLEAN :
          (ResetCallStep(u) /\ ~cfg.requestAnimationFrame)
             => /\ resultantZoom' = IF AtRestWithMax /\ ~u THEN ZoomedIn
                                    ELSE identity
                /\ frames' = << >>
                /\ graceTimers' = 0
                /\ isAnimationRunning' = FALSE]_vars

\* C14: after destroy no callback delivered to the controller (a timer
\* armed or a frame requested before it) changes the transform the element
\* displays or ends in a thrown error.
C14_InertAfterDestroy ==
    destroyed => (style = Null /\ ~thrown)

\* C15: after every touch, timer or frame callback the transform last
\* written to the element's style is resultantZoom; before the first
\* repaint resultantZoom is the identity.
C15_RenderedIsPreview ==
    IF style = Null THEN resultantZoom = identity
    ELSE style = css(resultantZoom)

\* a frame of an animation has painted a transform other than the identity
C15_Witness ==
    /\ lastCb.name = "step"
    /\ repaints = 1
    /\ resultantZoom # identity
    /\ style = css(resultantZoom)

\* the transform T applied to the point x: A x + b
At(T, x) == vcadd(apply(T.A, x), T.b)

\* C16: cascade is associative, the identity is its unit on both sides, and
\* cascade(T, U) takes a point x to T applied to U(x).
C16_CascadeLaws ==
    (calc # Null /\ calc.op = "cascade" /\ calc.out # Null)
       => /\ calc.out.T_UV = calc.out.TU_V
          /\ calc.out.IT = calc.T
          /\ calc.out.TI = calc.T
          /\ At(calc.out.TU, calc.x) = At(calc.T, At(calc.U, calc.x))

\* three transforms that do not commute were composed
C16_Witness ==
    /\ calc # Null
    /\ calc.op = "cascade"
    /\ calc.out # Null
    /\ calc.out.TU # cascade(calc.U, calc.T)
    /\ calc.out.TU_V # calc.out.TU
    /\ calc.T # identity /\ calc.U # identity /\ calc.V # identity

\* zoom has returned for the call in calc, made with rotate = rot
ZoomReturned(rot) ==
    /\ calc # Null
    /\ calc.op = "zoom"
    /\ calc.rot = rot
    /\ calc.out # Null

\* C17: for a source pair of two different points and any destination pair,
\* zoom(s, d, true) returns a transform taking s0 to d0 and s1 to d1; for
\* s = (0,0),(10,0) and d = (5,5),(25,5) it is twice the unit matrix with
\* translation (5,5).
C17_ZoomMapsSourceToDestination ==
    ZoomReturned(TRUE)
       => /\ At(calc.out, calc.s[1]) = calc.d[1]
          /\ At(calc.out, calc.s[2]) = calc.d[2]
          /\ (calc.s = <<P(0, 0), P(10, 0)>> /\ calc.d = <<P(5, 5), P(25, 5)>>)
                => calc.out = Transform(<<<<R(2), R(0)>>, <<R(0), R(2)>>>>, P(5, 5))

\* zoom returned a transform that turns, scales and shifts
C17_Witness ==
    /\ ZoomReturned(TRUE)
    /\ calc.out.A[1][2] # R(0)
    /\ calc.out.A[1][1] # R(0)
    /\ calc.out.A[1][1] # R(1)
    /\ calc.out.b # P(0, 0)
    /\ calc.s[1] # P(0, 0)

\* what zoom returns with rotate = false: a uniform scale by |d1 - d0| /
\* |s1 - s0| with zero off-diagonal entries, taking s0 to d0
UniformScale ==
    LET a == minus(calc.s[2], calc.s[1])
        b == minus(calc.d[2], calc.d[1])
        A == calc.out.A
    IN  /\ A[1][2] = R(0)
        /\ A[2][1] = R(0)
        /\ A[1][1] = A[2][2]
        /\ RGe(A[1][1], R(0))
        /\ RMul(RMul(A[1][1], A[1][1]), dot(a, a)) = dot(b, b)
        /\ At(calc.out, calc.s[1]) = calc.d[1]

\* C18: with rotate = false zoom returns a uniform scale with zero
\* off-diagonal entries that takes s0 to d0, and so with rotate = false no
\* sequence of touch events gives resultantZoom an off-diagonal entry other
\* than zero.
C18_ScaleOnlyNeverTurns ==
    /\ ZoomReturned(FALSE) => UniformScale
    /\ (calc = Null /\ ~cfg.rotate)
          => /\ resultantZoom.A[1][2] = R(0)
             /\ resultantZoom.A[2][1] = R(0)

\* checkBoundaries has returned for the call in calc
BoundariesReturned ==
    /\ calc # Null
    /\ calc.op = "checkBoundaries"
    /\ calc.out # Null

\* the rendered size of the element under the transform given
RenderedWidth == RMul(cfg.pixelSize.width, calc.rz.A[1][1])
RenderedHeight == RMul(cfg.pixelSize.height, calc.rz.A[2][2])

\* boundaries on, a portrait viewport and the rendered element at least as
\* large as the viewport on both axes
PortraitCovered ==
    /\ cfg.boundaries = TRUE
    /\ RGt(cfg.windowSize.height, cfg.windowSize.width)
    /\ RGe(RenderedWidth, cfg.windowSize.width)
    /\ RGe(RenderedHeight, cfg.windowSize.height)

\* C19: with boundaries on, a portrait viewport and the rendered element at
\* least as large as the viewport, checkBoundaries returns b with
\* -(width - viewportWidth) <= b[0] <= 0 and yBottomFormula <= b[1] <=
\* yTopFormula, for every element and viewport size.
C19_PortraitClampedToEdges ==
    (BoundariesReturned /\ PortraitCovered)
       => LET wh == cfg.windowSize.height
              ph == cfg.pixelSize.height
              yTopFormula == RNeg(RDiv(RSub(wh, ph), R(2)))
              yBottomFormula == RSub(RDiv(RSub(wh, ph), R(2)),
                                     RSub(RenderedHeight, ph))
              b == calc.out.b
          IN  /\ RLe(RNeg(RSub(RenderedWidth, cfg.windowSize.width)), b[1])
              /\ RLe(b[1], R(0))
              /\ RLe(yBottomFormula, b[2])
              /\ RLe(b[2], yTopFormula)

\* C20: checkBoundaries returns the matrix A it was given, in either
\* orientation and for every size, and with the boundaries option not true
\* it returns A and b both as given.
C20_BoundariesKeepMatrix ==
    BoundariesReturned
       => /\ calc.out.A = calc.rz.A
          /\ cfg.boundaries # TRUE => calc.out = calc.rz

\* a turned and shifted transform was clamped in a landscape viewport
C20_Witness ==
    /\ BoundariesReturned
    /\ cfg.boundaries = TRUE
    /\ ~RGt(cfg.windowSize.height, cfg.windowSize.width)
    /\ calc.rz.A[1][2] # R(0)
    /\ calc.out.b[1] # calc.rz.b[1]
    /\ calc.out.b[2] # calc.rz.b[2]

\* an animation is under way: a step is requested or the grace timer of a
\* final frame is armed
AnimationUnderWay == frames # << >> \/ graceTimers > 0

C22_SingleContactOnlyTranslates ==
    (PipelineRan /\ curTouch = 1 /\ repaints = 1)
       => resultantZoom.A = activeZoom.A

\* C23: after a reset animation has completed and its grace timer has cleared
\* isAnimationRunning, the target is the baseline of the next gesture: the
\* first event processed on the recorded contact count composes its preview
\* on an activeZoom equal to resultantZoom, the target.
C23_ResetTargetIsBaseline ==
    [][(lastCb.name = "graceTimeout" /\ PipelineStep)
          => activeZoom = resultantZoom]_vars

\* this step runs a touch listener that starts a reset animation
TouchStartsAnimation ==
    /\ TouchStep
    /\ ~isAnimationRunning
    /\ isAnimationRunning'

\* C24: whenever a touch listener starts a reset animation, by double tap or
\* by snap-back, the transform Z the interpolation starts from is the
\* resultantZoom displayed at that moment.
C24_AnimationStartsFromDisplayed ==
    [][TouchStartsAnimation
          => frames'[Len(frames')].Z = resultantZoom']_vars

\* C25: before destroy at most one double-tap timer is outstanding, and
\* mayBeDoubleTap is non-null exactly when one is, holding its handle.
C25_OnePendingTapTimer ==
    ~destroyed
       => /\ Cardinality(tapTimers) <= 1
          /\ mayBeDoubleTap # 0 <=> tapTimers # {}
          /\ mayBeDoubleTap # 0 => tapTimers = {mayBeDoubleTap}

\* a second tap has just cancelled the pending timer, cleared the marker
\* and started the double-tap reset
C25_Witness ==
    /\ lastCb.name = "handleTouchStart"
    /\ ~lastCb.wasRunning
    /\ Len(lastCb.touches) = 1
    /\ isAnimationRunning
    /\ Len(frames) = 1
    /\ mayBeDoubleTap = 0
    /\ tapTimers = {}

\* C26: in zoom-1.0.7-beta.js a two-contact move handled in the two-finger
\* state, curState = 2, leaves curState at 2, so that the next two-contact
\* move is handled by the same case of tm2.
C26_TwoFingerMoveKeepsState ==
    [][(curState = 2 /\ lastCb'.name = "tm2") => curState' = 2]_vars

\* this step runs one of the touch handlers ts1 ... te2
BetaHandlerStep ==
    lastCb'.name \in {"ts1", "ts2", "tm1", "tm2", "te1", "te2"}

\* this step runs the last frame of the animation, whose step calls to2
To2Step ==
    /\ lastCb'.name = "step"
    /\ frames' = Tail(frames)

\* the fields claim C27 speaks about, of the beta controller `me`
BetaFields(me) ==
    <<me.curState, me.activeZoom, me.resultantZoom, me.srcCoords,
      me.destCoords>>

\* C27: in zoom-1.0.7-beta.js, while curState = 3, every touch handler and
\* the tap timer callback to1 leaves curState, activeZoom, resultantZoom,
\* srcCoords and destCoords unchanged; curState leaves 3 only in the step
\* that runs to2, which sets curState to 0 and both transforms to identity.
C27_DoubleTapStateIsInert ==
    /\ [][(curState = 3 /\ BetaHandlerStep)
             => BetaFields(BetaMe)' = BetaFields(BetaMe)]_vars
    /\ [](curState = 3 => BetaFields(to1(BetaMe)) = BetaFields(BetaMe))
    /\ [][(curState = 3 /\ curState' # 3)
             => /\ To2Step
                /\ curState' = 0
                /\ activeZoom' = identity
                /\ resultantZoom' = identity]_vars

\* a touch handler has run in state 3 with the animation under way
C27_Witness ==
    /\ curState = 3
    /\ frames # << >>
    /\ lastCb.name \in {"tm1", "tm2", "te1", "te2", "ts2"}
    /\ ~thrown
====
